---- MODULE Spec2Model ----
(***************************************************************************)
(* Model of src/ofac_sanctions_processor.py: the normalisation of one      *)
(* sdnEntry (process_entry), the tables built by write_to_sheet, and the   *)
(* reconciliation against the SoT sheet (read_existing_entity_ids,         *)
(* append_new_entity_ids), run by main.                                    *)
(*                                                                         *)
(* A Python str is a tuple of one-character strings.  Python's None is     *)
(* the tuple <<"<None>">>, and an XML child element that is not there is   *)
(* the tuple <<"<absent>">>: neither is a tuple of characters, so neither  *)
(* equals any str.                                                         *)
(***************************************************************************)
EXTENDS Naturals, Sequences, FiniteSets, TLC

VARIABLES
    entry,      \* SpecNorm: the sdnEntry element handed to process_entry
    result,     \* SpecNorm: what process_entry did with it
    sheet_id,   \* SpecNorm: the entity_id write_to_sheet recomputes for result
    xml_file,   \* the state of downloaded_file.xml: "missing", "malformed", "ok"
    entries,    \* the sdnEntry elements of a well-formed downloaded_file.xml
    ofac,       \* the detail sheet 'ofac' (rows of 7 cells)
    sot,        \* the new-entity log 'SoT' (rows of 6 cells)
    pc,         \* pc[r]: where run r of main stands
    local       \* local[r]: the local variables of run r

vars == <<entry, result, sheet_id, xml_file, entries, ofac, sot, pc, local>>

-----------------------------------------------------------------------------
(* Python values *)

None == <<"<None>">>

Absent == <<"<absent>">>

Upper == <<"A","B","C","D","E","F","G","H","I","J","K","L","M",
           "N","O","P","Q","R","S","T","U","V","W","X","Y","Z">>

Lower == <<"a","b","c","d","e","f","g","h","i","j","k","l","m",
           "n","o","p","q","r","s","t","u","v","w","x","y","z">>

\* str.lower() on one character
lower_char(c) ==
    IF \E i \in DOMAIN Upper : Upper[i] = c
    THEN Lower[CHOOSE i \in DOMAIN Upper : Upper[i] = c]
    ELSE c

\* str.lower()
lower(s) == [i \in 1..Len(s) |-> lower_char(s[i])]

\* str.replace(old, new) for a one-character old
RECURSIVE replace(_, _, _)
replace(s, old, new) ==
    IF s = <<>> THEN <<>>
    ELSE (IF Head(s) = old THEN new ELSE <<Head(s)>>) \o replace(Tail(s), old, new)

\* str.strip(): surrounding blanks removed
RECURSIVE lstrip(_)
lstrip(s) == IF s # <<>> /\ Head(s) = " " THEN lstrip(Tail(s)) ELSE s

RECURSIVE rstrip(_)
rstrip(s) ==
    IF s # <<>> /\ s[Len(s)] = " " THEN rstrip(SubSeq(s, 1, Len(s) - 1)) ELSE s

strip(s) == rstrip(lstrip(s))

\* what an f-string makes of a value: str(None) is 'None'
format(v) == IF v = None THEN <<"N","o","n","e">> ELSE v

\* ', '.join(list)
RECURSIVE join(_)
join(l) ==
    IF l = <<>> THEN <<>>
    ELSE IF Len(l) = 1 THEN format(l[1])
    ELSE format(l[1]) \o <<",", " ">> \o join(Tail(l))

-----------------------------------------------------------------------------
(* Program constants *)

DCPrefix == <<"D","i","g","i","t","a","l"," ","C","u","r","r","e","n","c","y"," ",
              "A","d","d","r","e","s","s"," ","-"," ">>

ETH == DCPrefix \o <<"E","T","H">>

XBT == DCPrefix \o <<"X","B","T">>

TRX == DCPrefix \o <<"T","R","X">>

USDT == DCPrefix \o <<"U","S","D","T">>

USDC == DCPrefix \o <<"U","S","D","C">>

DIGITAL_CURRENCY_TYPES == {ETH, XBT, TRX, USDT, USDC}

Website == <<"W","e","b","s","i","t","e">>

Individual == <<"I","n","d","i","v","i","d","u","a","l">>

-----------------------------------------------------------------------------
(* process_entry *)

\* entry.find(x).text if entry.find(x) is not None else "": the text of an
\* element that is there but empty is None
find_text(field) == IF field = Absent THEN <<>> ELSE field

\* one <id> of the idList
id_of(id_entry) ==
    [idType |-> find_text(id_entry.idType), idNumber |-> find_text(id_entry.idNumber)]

\* the idList of the result: every <id> of the entry, none when there is no idList
\* (the idList element of an entry is [present, ids])
id_list_of(e) ==
    IF ~e.idList.present THEN <<>>
    ELSE [i \in 1..Len(e.idList.ids) |-> id_of(e.idList.ids[i])]

\* the values picked out of a list of ids, in order
RECURSIVE numbers_of(_, _)
numbers_of(ids, kinds) ==
    IF ids = <<>> THEN <<>>
    ELSE (IF Head(ids).idType \in kinds THEN <<Head(ids).idNumber>> ELSE <<>>)
         \o numbers_of(Tail(ids), kinds)

has_digital_currency(e) ==
    \E i \in DOMAIN id_list_of(e) : id_list_of(e)[i].idType \in DIGITAL_CURRENCY_TYPES

\* the first two replacements and the lowering of the entity_id
entity_id_base(sdnType, firstName, lastName) ==
    IF sdnType = Individual
    THEN lower(replace(format(firstName) \o <<"_">> \o format(lastName), " ", <<"_">>))
    ELSE lower(replace(lastName, " ", <<"_">>))

\* entity_id_of with the periods removed instead of replaced by '_'
entity_id_of_periods_removed(sdnType, firstName, lastName) ==
    replace(replace(entity_id_base(sdnType, firstName, lastName), ".", <<>>), ",", <<>>)

\* the entity_id of (sdnType, firstName, lastName)
entity_id_of(sdnType, firstName, lastName) ==
    replace(replace(entity_id_base(sdnType, firstName, lastName), ".", <<"_">>), ",", <<>>)

\* None has no method replace: the else branch raises AttributeError
raises_attribute_error(sdnType, lastName) == sdnType # Individual /\ lastName = None

process_entry(e) ==
    LET uid == find_text(e.uid)
        sdnType == find_text(e.sdnType)
        firstName == find_text(e.firstName)
        lastName == find_text(e.lastName)
        idList == id_list_of(e)
    IN  IF ~has_digital_currency(e) THEN [outcome |-> "None"]
        ELSE IF raises_attribute_error(sdnType, lastName)
        THEN [outcome |-> "AttributeError"]
        ELSE [outcome |-> "entity",
              uid |-> uid, sdnType |-> sdnType,
              firstName |-> firstName, lastName |-> lastName,
              idList |-> idList,
              websites |-> numbers_of(idList, {Website}),
              entity_id |-> entity_id_of(sdnType, firstName, lastName)]

-----------------------------------------------------------------------------
(* write_to_sheet: the tables it builds *)

HEADER == <<<<"U","I","D">>, <<"S","D","N"," ","T","y","p","e">>,
            <<"F","i","r","s","t"," ","N","a","m","e">>,
            <<"L","a","s","t"," ","N","a","m","e">>,
            <<"D","i","g","i","t","a","l"," ","C","u","r","r","e","n","c","y"," ",
              "A","d","d","r","e","s","s">>,
            <<"E","n","t","i","t","y"," ","I","D">>,
            <<"W","e","b","s","i","t","e","s">>>>

\* the entity_id write_to_sheet derives again from the entry's fields
sheet_entity_id(e) ==
    LET base == IF e.sdnType = Individual
                THEN lower(replace(format(e.firstName) \o <<"_">> \o format(e.lastName),
                                   " ", <<"_">>))
                ELSE lower(replace(e.lastName, " ", <<"_">>))
    IN  replace(replace(base, ".", <<"_">>), ",", <<>>)

digital_currency_addresses(e) == numbers_of(e.idList, DIGITAL_CURRENCY_TYPES)

\* detail_rows with one row for an entry, whatever the number of its addresses
detail_rows_one_per_entry(e) ==
    LET addresses == digital_currency_addresses(e)
        websites_str == join(numbers_of(e.idList, {Website}))
    IN  [i \in 1..1 |->
            <<e.uid, e.sdnType, e.firstName, e.lastName, addresses[i],
              sheet_entity_id(e), websites_str>>]

\* one row for each digital currency address of the entry
detail_rows(e) ==
    LET addresses == digital_currency_addresses(e)
        websites_str == join(numbers_of(e.idList, {Website}))
    IN  [i \in 1..Len(addresses) |->
            <<e.uid, e.sdnType, e.firstName, e.lastName, addresses[i],
              sheet_entity_id(e), websites_str>>]

\* what is kept of the entry for the SoT sheet
entity_to_append(e) ==
    [entity_id |-> sheet_entity_id(e),
     firstName |-> e.firstName, lastName |-> e.lastName,
     websites |-> numbers_of(e.idList, {Website})]

RECURSIVE detail_values(_)
detail_values(data) ==
    IF data = <<>> THEN <<HEADER>>
    ELSE detail_values(SubSeq(data, 1, Len(data) - 1)) \o detail_rows(data[Len(data)])

entities_to_append_of(data) == [i \in 1..Len(data) |-> entity_to_append(data[i])]

-----------------------------------------------------------------------------
(* SpecNorm: process_entry and the entity_id of write_to_sheet, on one entry *)

MaxNameLen == 2

NameChars == {"A", " ", ".", ","}

RECURSIVE StringsUpTo(_)
StringsUpTo(n) ==
    IF n = 0 THEN {<<>>}
    ELSE LET S == StringsUpTo(n - 1)
         IN  S \cup {Append(s, c) : s \in S, c \in NameChars}

John == <<"J","o","h","n">>

ASmithJr == <<"A","."," ","S","m","i","t","h",","," ","J","r",".">>

EntityType == <<"E","n","t","i","t","y">>

NameFields == StringsUpTo(MaxNameLen) \cup {None, Absent, John, ASmithJr}

IdOther == [idType |-> <<"S","S","N">>, idNumber |-> <<"9">>]

IdWeb == [idType |-> Website, idNumber |-> <<"w">>]

IdWeb2 == [idType |-> Website, idNumber |-> <<"v">>]

IdETH == [idType |-> ETH, idNumber |-> <<"x">>]

IdETH2 == [idType |-> ETH, idNumber |-> <<"y">>]

IdXBT == [idType |-> XBT, idNumber |-> <<"b">>]

IdUSDC == [idType |-> USDC, idNumber |-> <<"c">>]

IdNoType == [idType |-> None, idNumber |-> <<"n">>]

NoIdList == [present |-> FALSE, ids |-> <<>>]

IdList(ids) == [present |-> TRUE, ids |-> ids]

NormIdLists == {NoIdList, IdList(<<>>), IdList(<<IdWeb>>), IdList(<<IdOther, IdNoType>>),
                IdList(<<IdETH>>), IdList(<<IdWeb, IdXBT, IdUSDC>>)}

NormEntries ==
    [uid : {<<"1">>}, sdnType : {Individual, EntityType, Absent},
     firstName : NameFields, lastName : NameFields, idList : NormIdLists]

Pending == [outcome |-> "pending"]

InitNorm ==
    /\ entry \in NormEntries
    /\ result = Pending
    /\ sheet_id = None
    /\ xml_file = "missing"
    /\ entries = <<>>
    /\ ofac = <<>>
    /\ sot = <<>>
    /\ pc = <<>>
    /\ local = <<>>

\* processed_data gets process_entry(entry)
Normalize ==
    /\ result = Pending
    /\ result' = process_entry(entry)
    /\ UNCHANGED <<entry, sheet_id, xml_file, entries, ofac, sot, pc, local>>

\* write_to_sheet derives the entity_id of a processed entry again
Recompute ==
    /\ result.outcome = "entity"
    /\ sheet_id = None
    /\ sheet_id' = sheet_entity_id(result)
    /\ UNCHANGED <<entry, result, xml_file, entries, ofac, sot, pc, local>>

NextNorm == Normalize \/ Recompute

SpecNorm == InitNorm /\ [][NextNorm]_vars

-----------------------------------------------------------------------------
(* The two sheets.  A sheet is a sequence of rows, a row a tuple of cells, an
   empty cell the empty string; no sheet ends with empty rows. *)

EmptyRow(width) == [j \in 1..width |-> <<>>]

\* the last row of the sheet with something in column col, 0 when there is none
last_filled(grid, col) ==
    LET filled == {i \in DOMAIN grid : grid[i][col] # <<>>}
    IN  IF filled = {} THEN 0 ELSE CHOOSE i \in filled : \A k \in filled : k <= i

\* values().get of one whole column: result.get('values', []), the rows down to
\* the last one that has the cell, a row without the cell being []
column_values(grid, col) ==
    [i \in 1..last_filled(grid, col) |->
        IF grid[i][col] = <<>> THEN <<>> ELSE <<grid[i][col]>>]

RECURSIVE trimmed(_)
trimmed(grid) ==
    IF grid # <<>> /\ \A j \in DOMAIN grid[Len(grid)] : grid[Len(grid)][j] = <<>>
    THEN trimmed(SubSeq(grid, 1, Len(grid) - 1))
    ELSE grid

\* values().update(range, valueInputOption='RAW', body={'values': rows}) with the
\* range starting at column A of row first: every cell of rows replaces the cell
\* of the sheet, but a null leaves it as it is
update(grid, first, rows, width) ==
    LET last == first + Len(rows) - 1
        size == IF last > Len(grid) THEN last ELSE Len(grid)
        old(i) == IF i <= Len(grid) THEN grid[i] ELSE EmptyRow(width)
    IN  trimmed([i \in 1..size |->
            IF i >= first /\ i <= last
            THEN [j \in 1..width |->
                    IF rows[i - first + 1][j] = None THEN old(i)[j]
                    ELSE rows[i - first + 1][j]]
            ELSE old(i)])

-----------------------------------------------------------------------------
(* read_existing_entity_ids and append_new_entity_ids *)

SOURCE == <<"o","f","a","c","_","a","u","t","o","m","a","t","i","o","n">>

STATUS == <<"o","f","a","c"," ","s","a","n","c","t","i","o","n","e","d">>

\* set(value[0] for value in values if value) of column C
read_existing_entity_ids(grid) ==
    LET values == column_values(grid, 3)
    IN  {values[i][1] : i \in {k \in DOMAIN values : values[k] # <<>>}}

\* the row of one entity
new_row(entity, current_date) ==
    <<current_date, SOURCE, entity.entity_id,
      IF entity.websites # <<>> THEN entity.websites[1] ELSE <<>>,
      strip(format(entity.firstName) \o <<" ">> \o format(entity.lastName)),
      STATUS>>

\* the entity is given a row
is_new(entity, existing_entity_ids) == entity.entity_id \notin existing_entity_ids

\* new_values: a row for every entity whose entity_id is not in existing_entity_ids
RECURSIVE new_values_of(_, _, _)
new_values_of(entities, existing_entity_ids, current_date) ==
    IF entities = <<>> THEN <<>>
    ELSE (IF is_new(Head(entities), existing_entity_ids)
          THEN <<new_row(Head(entities), current_date)>> ELSE <<>>)
         \o new_values_of(Tail(entities), existing_entity_ids, current_date)

\* last_row_of short by one row
last_row_short_by_one(grid) ==
    IF column_values(grid, 1) = <<>> THEN 0 ELSE Len(column_values(grid, 1)) - 1

\* last_row = len(result.get('values', [])) of column A
last_row_of(grid) == Len(column_values(grid, 1))

-----------------------------------------------------------------------------
(* main *)

\* parse_xml_data: the sdnEntry elements, [] on a ParseError
parse_xml_data == IF xml_file = "malformed" THEN <<>> ELSE entries

\* [entry for entry in (process_entry(entry) ...) if entry is not None]
RECURSIVE processed_data_of(_)
processed_data_of(es) ==
    IF es = <<>> THEN <<>>
    ELSE (IF process_entry(Head(es)).outcome = "entity"
          THEN <<process_entry(Head(es))>> ELSE <<>>)
         \o processed_data_of(Tail(es))

Runs == {1, 2}

Dates == {<<"d","1">>, <<"d","2">>}

NoLocal ==
    [values |-> <<>>, entities_to_append |-> <<>>, existing_entity_ids |-> {},
     new_values |-> <<>>, last_row |-> 0,
     \* history: the store calls of the run that raised HttpError, the sheets the
     \* run has written, and how many updates of the SoT sheet had been made when
     \* the run read last_row and when it made its own
     http_errors |-> {}, written |-> {}, read_after |-> 0, written_after |-> 0]

\* the updates of the SoT sheet made so far
log_updates == Cardinality({q \in Runs : "log" \in local[q].written})

Running(r) == pc[r] \notin {"start", "returned", "raised", "done"}

\* main up to the update of the detail sheet: the file check, parse_xml_data,
\* process_entry on every entry, and the tables of write_to_sheet
Main(r, alone) ==
    /\ pc[r] = "start"
    /\ alone => (\A q \in Runs : ~Running(q)) /\ (\A q \in Runs : q < r => pc[q] # "start")
    /\ IF xml_file = "missing"
       THEN /\ pc' = [pc EXCEPT ![r] = "returned"]
            /\ local' = local
       ELSE IF \E i \in DOMAIN parse_xml_data :
                   process_entry(parse_xml_data[i]).outcome = "AttributeError"
       THEN /\ pc' = [pc EXCEPT ![r] = "raised"]
            /\ local' = local
       ELSE LET processed_data == processed_data_of(parse_xml_data)
            IN  /\ pc' = [pc EXCEPT ![r] = "update_detail"]
                /\ local' = [local EXCEPT
                       ![r].values = detail_values(processed_data),
                       ![r].entities_to_append = entities_to_append_of(processed_data)]
    /\ UNCHANGED <<entry, result, sheet_id, xml_file, entries, ofac, sot>>

\* write_to_sheet: the update of the detail sheet; its HttpError is not caught
UpdateDetail(r) ==
    /\ pc[r] = "update_detail"
    /\ \E ok \in BOOLEAN :
          IF ok
          THEN /\ ofac' = update(ofac, 1, local[r].values, 7)
               /\ pc' = [pc EXCEPT ![r] = "read_existing"]
               /\ local' = [local EXCEPT ![r].written = @ \cup {"detail"}]
          ELSE /\ ofac' = ofac
               /\ pc' = [pc EXCEPT ![r] = "raised"]
               /\ local' = [local EXCEPT ![r].http_errors = @ \cup {"detail"}]
    /\ UNCHANGED <<entry, result, sheet_id, xml_file, entries, sot>>

\* read_existing_entity_ids (set() on an HttpError), then the loop of
\* append_new_entity_ids that builds new_values
ReadExisting(r) ==
    /\ pc[r] = "read_existing"
    /\ \E ok \in BOOLEAN, current_date \in Dates :
          LET existing == IF ok THEN read_existing_entity_ids(sot) ELSE {}
              new_values == new_values_of(local[r].entities_to_append, existing,
                                          current_date)
          IN  /\ local' = [local EXCEPT
                     ![r].existing_entity_ids = existing,
                     ![r].new_values = new_values,
                     ![r].http_errors = IF ok THEN @ ELSE @ \cup {"existing"}]
              /\ pc' = [pc EXCEPT ![r] =
                     IF new_values # <<>> THEN "get_last_row" ELSE "test_access"]
    /\ UNCHANGED <<entry, result, sheet_id, xml_file, entries, ofac, sot>>

\* append_new_entity_ids: the get of column A that gives last_row
GetLastRow(r) ==
    /\ pc[r] = "get_last_row"
    /\ \E ok \in BOOLEAN :
          IF ok
          THEN /\ local' = [local EXCEPT ![r].last_row = last_row_of(sot),
                                         ![r].read_after = log_updates]
               /\ pc' = [pc EXCEPT ![r] = "update_log"]
          ELSE /\ local' = [local EXCEPT ![r].http_errors = @ \cup {"last_row"}]
               /\ pc' = [pc EXCEPT ![r] = "test_access"]
    /\ UNCHANGED <<entry, result, sheet_id, xml_file, entries, ofac, sot>>

\* append_new_entity_ids: the update of rows last_row + 1 .. last_row + len(new_values)
UpdateLog(r) ==
    /\ pc[r] = "update_log"
    /\ \E ok \in BOOLEAN :
          IF ok
          THEN /\ sot' = update(sot, local[r].last_row + 1, local[r].new_values, 6)
               /\ local' = [local EXCEPT ![r].written = @ \cup {"log"},
                                         ![r].written_after = log_updates]
          ELSE /\ sot' = sot
               /\ local' = [local EXCEPT ![r].http_errors = @ \cup {"log"}]
    /\ pc' = [pc EXCEPT ![r] = "test_access"]
    /\ UNCHANGED <<entry, result, sheet_id, xml_file, entries, ofac>>

\* main's summary and test_spreadsheet_access, which only reads
TestAccess(r) ==
    /\ pc[r] = "test_access"
    /\ pc' = [pc EXCEPT ![r] = "done"]
    /\ UNCHANGED <<entry, result, sheet_id, xml_file, entries, ofac, sot, local>>

-----------------------------------------------------------------------------
(* Spec: the runs of main one after the other; SpecConc: the runs at once *)

MaxEntries == 2

E1 == [uid |-> <<"1">>, sdnType |-> Individual, firstName |-> <<"J">>,
       lastName |-> <<"D",".">>, idList |-> IdList(<<IdETH, IdWeb>>)]

E2 == [uid |-> <<"2">>, sdnType |-> Individual, firstName |-> <<"J">>,
       lastName |-> <<"D"," ">>, idList |-> IdList(<<IdXBT, IdWeb2, IdUSDC>>)]

E3 == [uid |-> <<"3">>, sdnType |-> EntityType, firstName |-> Absent,
       lastName |-> Absent, idList |-> IdList(<<IdETH2>>)]

E4 == [uid |-> <<"4">>, sdnType |-> EntityType, firstName |-> Absent,
       lastName |-> <<"Q">>, idList |-> IdList(<<IdWeb>>)]

E5 == [uid |-> <<"5">>, sdnType |-> EntityType, firstName |-> Absent,
       lastName |-> None, idList |-> IdList(<<IdETH>>)]

E6 == [uid |-> <<"6">>, sdnType |-> EntityType, firstName |-> Absent,
       lastName |-> <<"K">>, idList |-> IdList(<<IdETH, IdETH>>)]

SampleEntries == {E1, E2, E3, E4, E5, E6}

\* the lists of at most n entries of S, no entry twice (a uid is not repeated)
RECURSIVE ListsUpTo(_, _)
ListsUpTo(S, n) ==
    IF n = 0 THEN {<<>>}
    ELSE LET L == ListsUpTo(S, n - 1)
             fresh(l) == {y \in S : \A i \in DOMAIN l : l[i] # y}
         IN  L \cup UNION {{Append(l, x) : x \in fresh(l)} : l \in L}

\* rows of the SoT sheet from before the runs
PriorRow(date, id) == <<date, SOURCE, id, <<>>, <<"n">>, STATUS>>

P1 == PriorRow(<<"d","0">>, <<"j","_","d","_">>)

P2 == PriorRow(<<>>, <<"j","_","d","_">>)

P3 == PriorRow(<<"d","0">>, <<"z">>)

PriorLogs == {<<>>, <<P1>>, <<P2>>, <<P3, P2>>, <<P2, P3>>, <<P3, P1>>}

Init ==
    /\ entry = <<>>
    /\ result = Pending
    /\ sheet_id = None
    /\ xml_file \in {"missing", "malformed", "ok"}
    /\ entries \in IF xml_file = "ok" THEN ListsUpTo(SampleEntries, MaxEntries)
                   ELSE {<<>>}
    /\ ofac = <<>>
    /\ sot \in PriorLogs
    /\ pc = [r \in Runs |-> "start"]
    /\ local = [r \in Runs |-> NoLocal]

Step(r) == UpdateDetail(r) \/ ReadExisting(r) \/ GetLastRow(r) \/ UpdateLog(r)
           \/ TestAccess(r)

Next == \E r \in Runs : Main(r, TRUE) \/ Step(r)

Spec == Init /\ [][Next]_vars

ConcEntries == {E1, E4, E6}

InitConc ==
    /\ entry = <<>>
    /\ result = Pending
    /\ sheet_id = None
    /\ xml_file = "ok"
    /\ entries \in ListsUpTo(ConcEntries, MaxEntries)
    /\ ofac = <<>>
    /\ sot \in PriorLogs
    /\ pc = [r \in Runs |-> "start"]
    /\ local = [r \in Runs |-> NoLocal]

NextConc == \E r \in Runs : Main(r, FALSE) \/ Step(r)

SpecConc == InitConc /\ [][NextConc]_vars

-----------------------------------------------------------------------------
(* Claims on process_entry, under SpecNorm *)

\* the entry has an identifier of one of the five digital-currency kinds
Recognized(e) ==
    /\ e.idList.present
    /\ \E i \in DOMAIN e.idList.ids : e.idList.ids[i].idType \in DIGITAL_CURRENCY_TYPES

\* C4: process_entry returns None for every entry without an identifier of a
\* recognized digital-currency kind, and an entity for every entry with one.
C4_ExcludedIffNotRecognized ==
    result # Pending =>
        IF Recognized(entry) THEN result.outcome = "entity" ELSE result.outcome = "None"

\* a name of the record as a string: a name that is missing is the empty string
NameText(field) == IF field \in {None, Absent} THEN <<>> ELSE field

\* the base lowercased, each space and each period replaced by '_', commas removed
Normalized(base) ==
    LET mapped == [i \in 1..Len(base) |->
                      IF base[i] \in {" ", "."} THEN "_" ELSE lower_char(base[i])]
        keep(c) == c # ","
    IN  SelectSeq(mapped, keep)

IdLaw(sdnType, first, last) ==
    Normalized(IF sdnType = Individual THEN first \o <<"_">> \o last ELSE last)

\* C5: the entity_id of every entity is the normalized base of its type, first
\* name and last name, and write_to_sheet derives the same entity_id again.
C5_EntityIdLaw ==
    result.outcome = "entity" =>
        /\ result.entity_id =
               IdLaw(NameText(entry.sdnType), NameText(entry.firstName),
                     NameText(entry.lastName))
        /\ sheet_id # None => sheet_id = result.entity_id

\* C5 for the entries whose name elements are absent or carry text
C5_EntityIdLawOfTextNames ==
    (result.outcome = "entity" /\ entry.firstName # None /\ entry.lastName # None) =>
        /\ result.entity_id =
               IdLaw(NameText(entry.sdnType), NameText(entry.firstName),
                     NameText(entry.lastName))
        /\ sheet_id # None => sheet_id = result.entity_id

\* the record of the example: Individual, 'John', 'A. Smith, Jr.'
IsExample ==
    /\ entry.sdnType = Individual
    /\ entry.firstName = John
    /\ entry.lastName = ASmithJr
    /\ result.outcome = "entity"

\* C6 as stated: the entity_id of the example is 'john_a__smith_jr'.
C6_ExampleAsStated ==
    IsExample =>
        result.entity_id =
            <<"j","o","h","n","_","a","_","_","s","m","i","t","h","_","j","r">>

\* C6 amended: the entity_id of the example is 'john_a__smith_jr_' (the period
\* that ends 'Jr.' is replaced by '_' too).
C6_ExampleAmended ==
    IsExample =>
        result.entity_id =
            <<"j","o","h","n","_","a","_","_","s","m","i","t","h","_","j","r","_">>

C6_Witness == IsExample /\ sheet_id = result.entity_id

-----------------------------------------------------------------------------
(* Claims on the runs of main, under Spec *)

Finished(r) == pc[r] \in {"returned", "raised", "done"}

\* C1: of two runs one after the other on the same input, every store call
\* succeeding, the second appends no row to the SoT sheet.
C1_SecondRunAppendsNothing ==
    (/\ pc[1] = "done" /\ pc[2] = "done"
     /\ local[1].http_errors = {} /\ local[2].http_errors = {})
        => "log" \notin local[2].written

\* C2: the update of the SoT sheet changes no cell of a row that was there.
C2_PriorRowsKept ==
    [][\A i \in DOMAIN sot : \A j \in DOMAIN sot[i] :
          sot[i][j] # <<>> => (i \in DOMAIN sot' /\ sot'[i][j] = sot[i][j])]_vars

\* C3: no entity_id is in two rows of the new_values of a run.
C3_NoDuplicateNewRows ==
    \A r \in Runs : \A i, j \in DOMAIN local[r].new_values :
        i # j => local[r].new_values[i][3] # local[r].new_values[j][3]

\* the entries main keeps: those with an identifier of a recognized kind
RECURSIVE Included(_)
Included(es) ==
    IF es = <<>> THEN <<>>
    ELSE (IF Recognized(Head(es)) THEN <<Head(es)>> ELSE <<>>) \o Included(Tail(es))

\* the identifiers of a recognized kind of an entry, counted with repetition
RecognizedCount(e) ==
    Cardinality({i \in DOMAIN e.idList.ids :
                    e.idList.ids[i].idType \in DIGITAL_CURRENCY_TYPES})

RECURSIVE SumOfCounts(_)
SumOfCounts(es) ==
    IF es = <<>> THEN 0 ELSE RecognizedCount(Head(es)) + SumOfCounts(Tail(es))

\* the rows of a table that are of the entry with this uid
RowsOf(values, uid) == {i \in 2..Len(values) : values[i][1] = uid}

\* C7: the table of a run is the header and, for every included entry, as many
\* rows as the entry has identifiers of a recognized kind, all with its uid and
\* one entity_id, whether or not the entity_id is in the SoT sheet already.
C7_FanOut ==
    \A r \in Runs : local[r].values # <<>> =>
        LET values == local[r].values
            data == Included(entries)
        IN  /\ values[1] = HEADER
            /\ Len(values) = 1 + SumOfCounts(data)
            /\ \A k \in DOMAIN data :
                  /\ Cardinality(RowsOf(values, data[k].uid)) = RecognizedCount(data[k])
                  /\ \A i, j \in RowsOf(values, data[k].uid) : values[i][6] = values[j][6]

\* a run has built a table with two rows of one entry and a row of another,
\* and found the entity_id of an entry of the table in the SoT sheet
C7_Witness ==
    \E r \in Runs :
        /\ pc[r] = "done"
        /\ \E i, j, k \in 2..Len(local[r].values) :
              /\ i # j
              /\ local[r].values[i][1] = local[r].values[j][1]
              /\ local[r].values[k][1] # local[r].values[i][1]
        /\ \E i \in 2..Len(local[r].values) :
              local[r].values[i][6] \in local[r].existing_entity_ids

\* C8: with the input file missing or malformed, no run writes to a sheet.
C8_NoWriteOnBadInput ==
    xml_file \in {"missing", "malformed"} => \A r \in Runs : local[r].written = {}

\* the run has entities whose entity_id is not in the SoT sheet
HasNewEntities(r) ==
    \E i \in DOMAIN local[r].entities_to_append :
        local[r].entities_to_append[i].entity_id \notin read_existing_entity_ids(sot)

\* C9: a run whose update of the detail sheet failed still appends its new
\* entities to the SoT sheet, and a run whose append failed has written the
\* detail sheet.
C9_WritesIndependent ==
    \A r \in Runs : Finished(r) =>
        /\ ("detail" \in local[r].http_errors /\ HasNewEntities(r))
               => "log" \in local[r].written
        /\ "log" \in local[r].http_errors => "detail" \in local[r].written

-----------------------------------------------------------------------------
(* Claim on runs of main at the same time, under SpecConc *)

\* a row the run wrote to the SoT sheet is no longer what the run wrote
RowsLost(r) ==
    /\ "log" \in local[r].written
    /\ \E i \in DOMAIN local[r].new_values :
          \/ local[r].last_row + i \notin DOMAIN sot
          \/ sot[local[r].last_row + i] # local[r].new_values[i]

\* the run wrote at a last_row it had read before another run's update
WroteAtStaleRow(r) ==
    /\ "log" \in local[r].written
    /\ local[r].written_after > local[r].read_after

\* C10: the rows a run appended are overwritten only by a run that read last_row
\* before that append and wrote after it; runs that do not interleave so lose
\* no appended row.
C10_LostOnlyByRace ==
    \A r \in Runs : RowsLost(r) => \E q \in Runs \ {r} : WroteAtStaleRow(q)

\* both runs read last_row before either wrote, both wrote at the same row, and
\* the rows of one are gone
C10_Witness ==
    /\ \A r \in Runs : "log" \in local[r].written /\ local[r].read_after = 0
    /\ local[1].last_row = local[2].last_row
    /\ \E r \in Runs : RowsLost(r)

====
